---------------------------- MODULE Spec2Model ----------------------------
(***************************************************************************)
(* Voice translation pipeline of LangSwap: the translator component        *)
(* (components/SpeechToTranslate.tsx), the translate tab                   *)
(* (app/(tabs)/translate.tsx), the lesson screen and the speech            *)
(* recognition service, modelled as state machines over React state,       *)
(* handler closures and the platform speech capabilities.                  *)
(*                                                                         *)
(* A text is a sequence of characters (one-character strings); the value   *)
(* JavaScript calls undefined is the one-element sequence Undefined.       *)
(* A React handler reads the state of the render it was created in, so an  *)
(* asynchronous handler carries a closure of the values it read when it    *)
(* was invoked.                                                            *)
(***************************************************************************)
EXTENDS Integers, Sequences, FiniteSets, TLC

\* ---------------------------------------------------------------- bounds

\* successful or failed submissions explored in the translator component
MaxTranslations == 2
\* submissions explored when the history is driven past its capacity
MaxHistoryRuns == 12
\* longest text the translate tab builds by translating what it translated
MaxTextLen == 3
\* translate() invocations of the tab in flight at once
MaxTabRuns == 1
\* speak handlers suspended at an await at once, over all screens
MaxSpeaks == 2
\* speak handlers suspended at once where the lesson screen is followed
MaxLessonSpeaks == 1
\* speak handlers suspended at once where the indicators are followed
MaxIndicatorSpeaks == 1
\* utterances the platform synthesizer holds at once
MaxQueue == 2
\* items of the lesson on screen
LessonItems == 2
\* capture sessions started on the native recognizer; web recognizers created
MaxSessions == 2
\* callbacks one native capture session delivers
MaxEvents == 2

\* ----------------------------------------------------------------- texts

Min(a, b) == IF a < b THEN a ELSE b

Empty == <<>>
Undefined == <<"undefined">>
Blank == <<" ">>

\* what the user types into the input field in this model
Inputs == {Empty, Blank, <<"a">>}
\* what the translation endpoint answers in its `translated` field
Replies == {<<"x">>}

IsWhitespace(c) == c = " "

RECURSIVE TrimStart(_)
TrimStart(t) ==
    IF t = Empty THEN Empty
    ELSE IF IsWhitespace(Head(t)) THEN TrimStart(Tail(t))
    ELSE t

RECURSIVE TrimEnd(_)
TrimEnd(t) ==
    IF t = Empty THEN Empty
    ELSE IF IsWhitespace(t[Len(t)]) THEN TrimEnd(SubSeq(t, 1, Len(t) - 1))
    ELSE t

\* String.prototype.trim
Trim(t) == TrimEnd(TrimStart(t))

\* JavaScript truthiness of a string-or-undefined value
Truthy(t) == t # Empty /\ t # Undefined

VARIABLES
    \* ---- translator component (SpeechToTranslate)
    inputText,        \* useState('')
    translatedText,   \* useState('')
    isTranslating,    \* useState(false)
    history,          \* useState([]), newest first
    languageMode,     \* LanguageModeContext: "null", "learn-thai", "learn-english"
    trReq,            \* the handleTranslate invocation suspended at fetch, or NoReq
    trAlert,          \* the Alert the translator component shows, or "none"
    clock,            \* history entries created so far (orders Date.now() ids)
    \* ---- translate tab (TranslateScreen)
    sourceLanguage,   \* useState(LANGUAGES[0]), by code
    targetLanguage,   \* useState(LANGUAGES[1]), by code
    sourceText,       \* useState('')
    tabTranslatedText, \* useState('')
    tabIsTranslating, \* useState(false)
    debounce,         \* the armed setTimeout of the effect with its closure, or NoTimer
    tabRuns,          \* translate() invocations suspended at their await, oldest first
    tabAlert,         \* the alert() the translate tab shows, or "none"
    \* ---- speech synthesis (expo-speech) and the three screens that speak
    speaks,           \* the speak handlers suspended at an await, by slot
    speechQueue,      \* utterances given to Speech.speak and not finished, oldest first
    isSpeaking,       \* useState(false) of each screen
    \* ---- lesson screen (LessonScreen)
    lessonLoaded,     \* lesson !== null
    currentIndex,     \* useState(0)
    showAnswer,       \* useState(false)
    isTTSMuted,       \* useState(false)
    storedMute,       \* AsyncStorage 'tts_muted': "null", "true", "false"
    muteLoad,         \* loadMutePreference: "pending" or "done"
    toggle,           \* the toggleMute invocation suspended at an await, or NoToggle
    lessonAlert,      \* the Alert the lesson screen shows, or "none"
    \* ---- speech capture
    platform,         \* Platform.OS and what the browser offers
    isRecording,      \* useState(false) of the translator component
    tabIsRecording,   \* useState(false) of the translate tab
    isListening,      \* SpeechRecognitionService.isListening
    voice,            \* the native recognizer behind Voice (mobile)
    handlers,         \* who set Voice.onSpeechResults and Voice.onSpeechError, and when
    recognizers,      \* the SpeechRecognition objects created (web), in order
    calls,            \* the capture handlers suspended at an await
    svcText,          \* last text given to the onResult of a service caller
    svcAlert,         \* last notice of the service: Alert or onError
    cbSession,        \* the session of the last recognizer callback
    \* ---- observation
    swapSnap,         \* the tab's pair and texts before the first of two swaps
    swapCount,        \* swaps of the tab since the last user edit: 0, 1, 2
    lastOp            \* the handler or platform event that ran in the last step

trVars == <<inputText, translatedText, isTranslating, history, languageMode,
            trReq, trAlert, clock>>

tabVars == <<sourceLanguage, targetLanguage, sourceText, tabTranslatedText,
             tabIsTranslating, debounce, tabRuns, tabAlert, swapSnap, swapCount>>

\* the translator component's state but its Alert
trCore == <<inputText, translatedText, isTranslating, history, languageMode,
            trReq, clock>>

spVars == <<speaks, speechQueue, isSpeaking>>

\* the lesson screen's state but its Alert
lesCore == <<lessonLoaded, currentIndex, showAnswer, isTTSMuted, storedMute,
             muteLoad, toggle>>

lesVars == <<lesCore, lessonAlert>>

capVars == <<platform, isRecording, tabIsRecording, isListening, voice,
             handlers, recognizers, calls, svcText, svcAlert, cbSession>>

\* what a capture handler leaves alone in the translator component
trRest == <<translatedText, isTranslating, history, languageMode, trReq, clock>>

\* what a capture handler leaves alone in the translate tab
tabRest == <<sourceLanguage, targetLanguage, tabTranslatedText,
             tabIsTranslating, tabRuns>>

vars == <<trVars, tabVars, spVars, lesVars, capVars, lastOp>>

\* ------------------------------------------- translator component: state

NoReq == [kind |-> "none"]
NoResp == [kind |-> "pending"]

LanguageModes == {"learn-thai", "learn-english"}

sourceLang == IF languageMode = "learn-thai" THEN "en" ELSE "th"
targetLang == IF languageMode = "learn-thai" THEN "th" ELSE "en"

\* [newEntry, ...history.slice(0, 9)]: the older entries kept, and the capacity
HistoryKeep == 9
HistoryCap == HistoryKeep + 1

TrInit ==
    /\ inputText = Empty
    /\ translatedText = Empty
    /\ isTranslating = FALSE
    /\ history = <<>>
    /\ languageMode = "null"
    /\ trReq = NoReq
    /\ trAlert = "none"
    /\ clock = 0

\* LanguageModeProvider.loadLanguageMode / setLanguageMode
SetLanguageMode(mode) ==
    /\ languageMode # mode
    /\ languageMode' = mode
    /\ lastOp' = "setLanguageMode"
    /\ UNCHANGED <<inputText, translatedText, isTranslating, history, trReq,
                   trAlert, clock>>

\* TextInput onChangeText={setInputText}
SetInputText(t) ==
    /\ inputText # t
    /\ inputText' = t
    /\ lastOp' = "setInputText"
    /\ UNCHANGED <<translatedText, isTranslating, history, languageMode, trReq,
                   trAlert, clock>>

\* the user closes the Alert
DismissAlert ==
    /\ trAlert # "none"
    /\ trAlert' = "none"
    /\ lastOp' = "dismissAlert"
    /\ UNCHANGED <<inputText, translatedText, isTranslating, history,
                   languageMode, trReq, clock>>

\* the Translate button is pressable: disabled={isTranslating || !inputText}
TranslateEnabled == ~isTranslating /\ Truthy(inputText)

\* Alert.alert('Empty Input', ...) of handleTranslate
EmptyInputAlertSilent == trAlert

EmptyInputAlert == "Empty Input"

\* the request handleTranslate posts, with the history its closure holds;
\* cleared tells whether Clear was pressed since
TranslateRequest ==
    [kind |-> "fetch", text |-> inputText, source_lang |-> sourceLang,
     target_lang |-> targetLang, hist |-> history, resp |-> NoResp,
     cleared |-> FALSE]

\* handleTranslate up to its return or its await fetch(...)
HandleTranslate(maxRuns) ==
    /\ TranslateEnabled
    /\ IF Trim(inputText) = Empty
       THEN /\ trAlert' = EmptyInputAlert
            /\ UNCHANGED <<isTranslating, trReq>>
       ELSE /\ clock < maxRuns
            /\ isTranslating' = TRUE
            /\ trReq' = TranslateRequest
            /\ UNCHANGED trAlert
    /\ lastOp' = "handleTranslate"
    /\ UNCHANGED <<inputText, translatedText, history, languageMode, clock>>

\* the endpoint's answers: a body with `translated`, a JSON error body without
\* it (fetch resolves on an HTTP error), or a rejected fetch / unparsable body
Responses ==
    {[kind |-> "ok", translated |-> r] : r \in Replies}
        \cup {[kind |-> "errorBody", translated |-> Undefined],
              [kind |-> "reject", translated |-> Undefined]}

EndpointResponds(resp) ==
    /\ trReq # NoReq
    /\ trReq.resp = NoResp
    /\ trReq' = [trReq EXCEPT !.resp = resp]
    /\ lastOp' = "endpointResponds"
    /\ UNCHANGED <<inputText, translatedText, isTranslating, history,
                   languageMode, trAlert, clock>>

NewEntryCurrentInput(req, translated, id) ==
    [id |-> id, original |-> inputText, translated |-> translated,
     sourceLang |-> sourceLang, targetLang |-> targetLang]

\* newEntry: the closure's inputText, sourceLang and targetLang
NewEntry(req, translated, id) ==
    [id |-> id, original |-> req.text, translated |-> translated,
     sourceLang |-> req.source_lang, targetLang |-> req.target_lang]

HistoryAfterOverflow(entry, hist) ==
    <<entry>> \o SubSeq(hist, 1, Min(HistoryKeep + 1, Len(hist)))

HistoryAfterDropNewest(entry, hist) ==
    <<entry>> \o SubSeq(hist, 2, Min(HistoryKeep + 1, Len(hist)))

\* [newEntry, ...history.slice(0, 9)]
HistoryAfter(entry, hist) ==
    <<entry>> \o SubSeq(hist, 1, Min(HistoryKeep, Len(hist)))

HandleTranslateResumeNoFinally ==
    /\ trReq # NoReq
    /\ trReq.resp # NoResp
    /\ IF trReq.resp.kind = "reject"
       THEN /\ trAlert' = "Error"
            /\ UNCHANGED <<translatedText, history, clock, isTranslating>>
       ELSE /\ translatedText' = trReq.resp.translated
            /\ clock' = clock + 1
            /\ history' = HistoryAfter(
                   NewEntry(trReq, trReq.resp.translated, clock + 1), trReq.hist)
            /\ isTranslating' = FALSE
            /\ UNCHANGED trAlert
    /\ trReq' = NoReq
    /\ lastOp' = "handleTranslateResume"
    /\ UNCHANGED <<inputText, languageMode>>

\* handleTranslate after its awaits: the rest of try, catch, finally
HandleTranslateResume ==
    /\ trReq # NoReq
    /\ trReq.resp # NoResp
    /\ IF trReq.resp.kind = "reject"
       THEN /\ trAlert' = "Error"
            /\ UNCHANGED <<translatedText, history, clock>>
       ELSE /\ translatedText' = trReq.resp.translated
            /\ clock' = clock + 1
            /\ history' = HistoryAfter(
                   NewEntry(trReq, trReq.resp.translated, clock + 1), trReq.hist)
            /\ UNCHANGED trAlert
    /\ isTranslating' = FALSE
    /\ trReq' = NoReq
    /\ lastOp' = "handleTranslateResume"
    /\ UNCHANGED <<inputText, languageMode>>

\* handleSwapLanguages
HandleSwapLanguages ==
    /\ inputText' = translatedText
    /\ translatedText' = inputText
    /\ lastOp' = "handleSwapLanguages"
    /\ UNCHANGED <<isTranslating, history, languageMode, trReq, trAlert, clock>>

\* handleClear; the Clear button is not disabled while a request is in flight
HandleClear ==
    /\ inputText' = Empty
    /\ translatedText' = Empty
    /\ trReq' = IF trReq = NoReq THEN trReq ELSE [trReq EXCEPT !.cleared = TRUE]
    /\ lastOp' = "handleClear"
    /\ UNCHANGED <<isTranslating, history, languageMode, trAlert, clock>>

SelectFromHistoryToFront(i) ==
    /\ i \in 1..Len(history)
    /\ inputText' = history[i].original
    /\ translatedText' = history[i].translated
    /\ history' = <<history[i]>> \o SubSeq(history, 1, i - 1)
                     \o SubSeq(history, i + 1, Len(history))
    /\ lastOp' = "selectFromHistory"
    /\ UNCHANGED <<isTranslating, languageMode, trReq, trAlert, clock>>

\* history item onPress
SelectFromHistory(i) ==
    /\ i \in 1..Len(history)
    /\ inputText' = history[i].original
    /\ translatedText' = history[i].translated
    /\ lastOp' = "selectFromHistory"
    /\ UNCHANGED <<isTranslating, history, languageMode, trReq, trAlert, clock>>

\* ------------------------------------------------------------ translate tab

\* LANGUAGES, by code: the first two of the fourteen entries
Languages == {"en", "th"}

\* `[${targetLanguage.name}] `, one character of the model's texts
NameTag(code) ==
    CASE code = "en" -> "[English] "
      [] OTHER -> "[Thai] "

NoTimer == [kind |-> "none"]
NoSnap == [kind |-> "none"]

TabInit ==
    /\ sourceLanguage = "en"
    /\ targetLanguage = "th"
    /\ sourceText = Empty
    /\ tabTranslatedText = Empty
    /\ tabIsTranslating = FALSE
    /\ debounce = NoTimer
    /\ tabRuns = <<>>
    /\ tabAlert = "none"
    /\ swapSnap = NoSnap
    /\ swapCount = 0

\* the closure of translate in the render with these values
TabClosure(text, target) == [kind |-> "translate", text |-> text, target |-> target]

\* useEffect(..., [sourceText, sourceLanguage, targetLanguage]) after a render:
\* when a dependency changed, the last timer is cleared and, with a non-empty
\* sourceText, a new one is armed
DebounceAfter(text, source, target) ==
    IF <<text, source, target>> = <<sourceText, sourceLanguage, targetLanguage>>
    THEN debounce
    ELSE IF Truthy(text) THEN TabClosure(text, target) ELSE NoTimer

UserEdit == swapSnap' = NoSnap /\ swapCount' = 0

\* TextInput onChangeText={setSourceText}
TabSetSourceText(t) ==
    /\ sourceText # t
    /\ sourceText' = t
    /\ debounce' = DebounceAfter(t, sourceLanguage, targetLanguage)
    /\ UserEdit
    /\ lastOp' = "setSourceText"
    /\ UNCHANGED <<sourceLanguage, targetLanguage, tabTranslatedText,
                   tabIsTranslating, tabRuns, tabAlert>>

\* the Clear control of the translate tab: onPress={() => setSourceText('')}
TabClear ==
    /\ sourceText' = Empty
    /\ debounce' = DebounceAfter(Empty, sourceLanguage, targetLanguage)
    /\ UserEdit
    /\ lastOp' = "clear"
    /\ UNCHANGED <<sourceLanguage, targetLanguage, tabTranslatedText,
                   tabIsTranslating, tabRuns, tabAlert>>

\* language button of the From row
TabSetSourceLanguage(l) ==
    /\ sourceLanguage # l
    /\ sourceLanguage' = l
    /\ debounce' = DebounceAfter(sourceText, l, targetLanguage)
    /\ UserEdit
    /\ lastOp' = "setSourceLanguage"
    /\ UNCHANGED <<targetLanguage, sourceText, tabTranslatedText,
                   tabIsTranslating, tabRuns, tabAlert>>

\* language button of the To row
TabSetTargetLanguage(l) ==
    /\ targetLanguage # l
    /\ targetLanguage' = l
    /\ debounce' = DebounceAfter(sourceText, sourceLanguage, l)
    /\ UserEdit
    /\ lastOp' = "setTargetLanguage"
    /\ UNCHANGED <<sourceLanguage, sourceText, tabTranslatedText,
                   tabIsTranslating, tabRuns, tabAlert>>

\* swapLanguages
SwapLanguages ==
    /\ sourceLanguage' = targetLanguage
    /\ targetLanguage' = sourceLanguage
    /\ sourceText' = tabTranslatedText
    /\ tabTranslatedText' = sourceText
    /\ debounce' = DebounceAfter(tabTranslatedText, targetLanguage, sourceLanguage)
    /\ IF swapCount = 1
       THEN swapCount' = 2 /\ UNCHANGED swapSnap
       ELSE /\ swapCount' = 1
            /\ swapSnap' = [kind |-> "snap", source |-> sourceLanguage,
                            target |-> targetLanguage, text |-> sourceText,
                            translated |-> tabTranslatedText,
                            quiet |-> tabRuns = <<>> /\ debounce = NoTimer]
    /\ lastOp' = "swapLanguages"
    /\ UNCHANGED <<tabIsTranslating, tabRuns, tabAlert>>

\* the 500 ms timer fires: translate() of the render that armed it, up to its
\* return or its await
DebounceFires ==
    /\ debounce # NoTimer
    /\ debounce' = NoTimer
    /\ IF Trim(debounce.text) = Empty
       THEN UNCHANGED <<tabIsTranslating, tabRuns>>
       ELSE /\ Len(debounce.text) < MaxTextLen
            /\ Len(tabRuns) < MaxTabRuns
            /\ tabIsTranslating' = TRUE
            /\ tabRuns' = Append(tabRuns, debounce)
    /\ lastOp' = "translate"
    /\ UNCHANGED <<sourceLanguage, targetLanguage, sourceText,
                   tabTranslatedText, tabAlert, swapSnap, swapCount>>

\* `[${targetLanguage.name}] ${sourceText}` of the closure
MockTranslation(run) == <<NameTag(run.target)>> \o run.text

\* the 1000 ms promise of the oldest translate() resolves: try body, finally
TranslateResume ==
    /\ tabRuns # <<>>
    /\ tabTranslatedText' = MockTranslation(Head(tabRuns))
    /\ tabIsTranslating' = FALSE
    /\ tabRuns' = Tail(tabRuns)
    /\ lastOp' = "translateResume"
    /\ UNCHANGED <<sourceLanguage, targetLanguage, sourceText, debounce,
                   tabAlert, swapSnap, swapCount>>

\* ------------------------------------------------ speech synthesis

Screens == {"translator", "tab", "lesson"}

IdleSpeak == [pc |-> "idle"]
NoToggle == [pc |-> "none"]

SpeechInit ==
    /\ speaks = [i \in 1..MaxSpeaks |-> IdleSpeak]
    /\ speechQueue = <<>>
    /\ isSpeaking = [s \in Screens |-> FALSE]

\* AsyncStorage.getItem('tts_muted') before a write, after toggleMute wrote
StoredMutes == {"null", "true", "false"}

LessonInit ==
    /\ lessonLoaded = FALSE
    /\ currentIndex = 0
    /\ showAnswer = FALSE
    /\ isTTSMuted = FALSE
    /\ storedMute \in StoredMutes
    /\ muteLoad = "pending"
    /\ toggle = NoToggle
    /\ lessonAlert = "none"

FreeSlots == {i \in 1..MaxSpeaks : speaks[i] = IdleSpeak}

SetIsSpeakingSticky(screen, v) ==
    IF screen \in Screens /\ v THEN [isSpeaking EXCEPT ![screen] = TRUE]
    ELSE isSpeaking

\* setIsSpeaking(v) of a screen; the lesson route of app/lesson/[id].tsx
\* ("lessonThai") keeps no such flag
SetIsSpeaking(screen, v) ==
    IF screen \in Screens THEN [isSpeaking EXCEPT ![screen] = v]
    ELSE isSpeaking

\* a speak handler up to its `await Speech.isSpeakingAsync()`
Invoke(screen, text, language) ==
    /\ FreeSlots # {}
    /\ LET i == CHOOSE k \in FreeSlots : \A j \in FreeSlots : k <= j
       IN speaks' = [speaks EXCEPT ![i] =
              [pc |-> "isSpeakingAsync", screen |-> screen, text |-> text,
               language |-> language]]

\* language === 'th' ? 'th-TH' : 'en-GB'
LangCode(language) == IF language = "th" THEN "th-TH" ELSE "en-GB"

\* LANGUAGES[..].ttsCode
TtsCode(code) == IF code = "th" THEN "th-TH" ELSE "en-GB"

HandleSpeakUnlessMuted(side) ==
    LET text == IF side = "input" THEN inputText ELSE translatedText
        language == IF side = "input" THEN sourceLang ELSE targetLang
    IN /\ Truthy(text)
       /\ ~isSpeaking["translator"]
       /\ IF isTTSMuted THEN UNCHANGED speaks
          ELSE Invoke("translator", text, LangCode(language))
       /\ lastOp' = "handleSpeak"
       /\ UNCHANGED <<speechQueue, isSpeaking, trAlert, lessonAlert>>

\* handleSpeak(inputText, sourceLang) / handleSpeak(translatedText, targetLang);
\* the buttons are disabled={!text || isSpeaking}
HandleSpeak(side) ==
    LET text == IF side = "input" THEN inputText ELSE translatedText
        language == IF side = "input" THEN sourceLang ELSE targetLang
    IN /\ Truthy(text)
       /\ ~isSpeaking["translator"]
       /\ Invoke("translator", text, LangCode(language))
       /\ lastOp' = "handleSpeak"
       /\ UNCHANGED <<speechQueue, isSpeaking, trAlert, lessonAlert>>

\* speakText(sourceText, sourceLanguage, true) / speakText(translatedText,
\* targetLanguage, false); the buttons are disabled={!text || isSpeaking}
SpeakText(side) ==
    LET text == IF side = "source" THEN sourceText ELSE tabTranslatedText
        language == IF side = "source" THEN sourceLanguage ELSE targetLanguage
    IN /\ Truthy(text)
       /\ ~isSpeaking["tab"]
       /\ IF Trim(text) = Empty
          THEN UNCHANGED speaks
          ELSE Invoke("tab", text, TtsCode(language))
       /\ lastOp' = "speakText"
       /\ UNCHANGED <<speechQueue, isSpeaking, trAlert, lessonAlert>>

SpeakSuppressedNever == FALSE

\* speak of the lesson screen: if (isTTSMuted) return
SpeakSuppressed == isTTSMuted

\* the text of the current item; language_mode picks the language
LessonText == <<"a">>

\* speak(text) of the lesson screen up to its return or its first await, in a
\* lesson whose language_mode is not 'learn-english'
LessonSpeak ==
    IF SpeakSuppressed
    THEN UNCHANGED speaks
    ELSE Invoke("lesson", LessonText, "th-TH")

\* the play button of the lesson header, disabled={isTTSMuted}
LessonSpeakButton ==
    /\ lessonLoaded
    /\ ~isTTSMuted
    /\ LessonSpeak
    /\ lastOp' = "speakButton"
    /\ UNCHANGED <<speechQueue, isSpeaking, trAlert, lessonAlert, lesCore>>

\* speakThai of the lesson route up to its `await Speech.stop()`
SpeakThai ==
    /\ FreeSlots # {}
    /\ LET i == CHOOSE k \in FreeSlots : \A j \in FreeSlots : k <= j
       IN speaks' = [speaks EXCEPT ![i] =
              [pc |-> "stop", screen |-> "lessonThai", text |-> LessonText,
               language |-> "th-TH"]]
    /\ lastOp' = "speakThai"
    /\ UNCHANGED <<speechQueue, isSpeaking, trAlert, lessonAlert>>

\* the native side answers isSpeakingAsync: speaking or queued, or it rejects
NativeIsSpeaking(i, ok) ==
    /\ speaks[i].pc = "isSpeakingAsync"
    /\ speaks' = [speaks EXCEPT ![i] =
           IF ok
           THEN [@ EXCEPT !.pc = IF speechQueue # <<>> THEN "available"
                                 ELSE "notAvailable"]
           ELSE [@ EXCEPT !.pc = "threw"]]
    /\ lastOp' = "isSpeakingAsync"
    /\ UNCHANGED <<speechQueue, isSpeaking, trAlert, lessonAlert>>

\* the screens whose utterances the synthesizer holds
QueueOwners == {speechQueue[k].screen : k \in 1..Len(speechQueue)}

\* Speech.stop() on the native side: every utterance is dropped and the
\* onStopped callback of each runs, setIsSpeaking(false)
StopAll ==
    /\ speechQueue' = <<>>
    /\ isSpeaking' = [s \in Screens |->
           IF s \in QueueOwners THEN FALSE ELSE isSpeaking[s]]

\* the native side performs the Speech.stop() of a speak handler, or the call
\* rejects
NativeStop(i, ok) ==
    /\ speaks[i].pc = "stop"
    /\ IF ok
       THEN /\ StopAll
            /\ speaks' = [speaks EXCEPT ![i].pc = "stopped"]
       ELSE /\ speaks' = [speaks EXCEPT ![i].pc = "threw"]
            /\ UNCHANGED <<speechQueue, isSpeaking>>
    /\ lastOp' = "stop"
    /\ UNCHANGED <<trAlert, lessonAlert>>

Utterance(sp) == [screen |-> sp.screen, text |-> sp.text, language |-> sp.language]

\* a speak handler after an await: `if (available) await Speech.stop()`,
\* then setIsSpeaking(true) and Speech.speak(...), or the catch branch
SpeakResume(i) ==
    /\ speaks[i].pc \in {"available", "notAvailable", "stopped", "threw"}
    /\ CASE speaks[i].pc = "available" ->
              /\ speaks' = [speaks EXCEPT ![i].pc = "stop"]
              /\ UNCHANGED <<speechQueue, isSpeaking, lessonAlert>>
         [] speaks[i].pc = "threw" ->
              /\ speaks' = [speaks EXCEPT ![i] = IdleSpeak]
              /\ isSpeaking' = SetIsSpeaking(speaks[i].screen, FALSE)
              /\ lessonAlert' = CASE speaks[i].screen = "lesson" -> "Audio Feature"
                                  [] speaks[i].screen = "lessonThai" -> "Error"
                                  [] OTHER -> lessonAlert
              /\ UNCHANGED speechQueue
         [] OTHER ->
              /\ Len(speechQueue) < MaxQueue
              /\ speaks' = [speaks EXCEPT ![i] = IdleSpeak]
              /\ isSpeaking' = SetIsSpeaking(speaks[i].screen, TRUE)
              /\ speechQueue' = Append(speechQueue, Utterance(speaks[i]))
              /\ UNCHANGED lessonAlert
    /\ lastOp' = "speakResume"
    /\ UNCHANGED trAlert

\* the utterance being spoken ends: onDone
UtteranceDone ==
    /\ speechQueue # <<>>
    /\ speechQueue' = Tail(speechQueue)
    /\ isSpeaking' = SetIsSpeaking(Head(speechQueue).screen, FALSE)
    /\ lastOp' = "onDone"
    /\ UNCHANGED <<speaks, trAlert, lessonAlert>>

\* the utterance being spoken fails: onError
UtteranceError ==
    /\ speechQueue # <<>>
    /\ speechQueue' = Tail(speechQueue)
    /\ isSpeaking' = SetIsSpeaking(Head(speechQueue).screen, FALSE)
    /\ trAlert' = IF Head(speechQueue).screen = "translator"
                  THEN "TTS Not Available" ELSE trAlert
    /\ lessonAlert' = IF Head(speechQueue).screen = "lesson"
                      THEN "Audio Not Available" ELSE lessonAlert
    /\ lastOp' = "onError"
    /\ UNCHANGED speaks

\* ------------------------------------------------------------ lesson screen

\* loadLesson: setLesson(data)
LoadLesson ==
    /\ ~lessonLoaded
    /\ lessonLoaded' = TRUE
    /\ lastOp' = "loadLesson"
    /\ UNCHANGED <<currentIndex, showAnswer, isTTSMuted, storedMute, muteLoad,
                   toggle, lessonAlert>>

\* loadMutePreference after its await: setIsTTSMuted(mutePref === 'true'), or
\* the catch branch
LoadMutePreference(ok) ==
    /\ muteLoad = "pending"
    /\ muteLoad' = "done"
    /\ isTTSMuted' = IF ok THEN storedMute = "true" ELSE isTTSMuted
    /\ lastOp' = "loadMutePreference"
    /\ UNCHANGED <<lessonLoaded, currentIndex, showAnswer, storedMute, toggle,
                   lessonAlert>>

\* the auto-play effect, useEffect(..., [showAnswer, currentIndex]), after a
\* render with these values: speak(textToSpeak) when a dependency changed and
\* the answer shows
AutoPlay(show, index) ==
    IF <<show, index>> # <<showAnswer, currentIndex>> /\ show /\ lessonLoaded
    THEN LessonSpeak
    ELSE UNCHANGED speaks

\* the flashcard's onPress: setShowAnswer(!showAnswer), then the effect
ToggleAnswer ==
    /\ lessonLoaded
    /\ showAnswer' = ~showAnswer
    /\ AutoPlay(~showAnswer, currentIndex)
    /\ lastOp' = IF showAnswer THEN "hideAnswer" ELSE "revealAnswer"
    /\ UNCHANGED <<lessonLoaded, currentIndex, isTTSMuted, storedMute, muteLoad,
                   toggle, lessonAlert, speechQueue, isSpeaking, trAlert>>

\* handleNext and handleSwipeLeft, then the effect
HandleNext ==
    /\ lessonLoaded
    /\ IF currentIndex < LessonItems - 1
       THEN /\ currentIndex' = currentIndex + 1
            /\ showAnswer' = FALSE
            /\ AutoPlay(FALSE, currentIndex + 1)
       ELSE UNCHANGED <<currentIndex, showAnswer, speaks>>
    /\ lastOp' = "handleNext"
    /\ UNCHANGED <<lessonLoaded, isTTSMuted, storedMute, muteLoad, toggle,
                   lessonAlert, speechQueue, isSpeaking, trAlert>>

\* handlePrevious and handleSwipeRight, then the effect
HandlePrevious ==
    /\ lessonLoaded
    /\ currentIndex > 0
    /\ currentIndex' = currentIndex - 1
    /\ showAnswer' = FALSE
    /\ AutoPlay(FALSE, currentIndex - 1)
    /\ lastOp' = "handlePrevious"
    /\ UNCHANGED <<lessonLoaded, isTTSMuted, storedMute, muteLoad, toggle,
                   lessonAlert, speechQueue, isSpeaking, trAlert>>

\* toggleMute up to its `await AsyncStorage.setItem(...)`
ToggleMute ==
    /\ lessonLoaded
    /\ toggle = NoToggle
    /\ isTTSMuted' = ~isTTSMuted
    /\ toggle' = [pc |-> "setItem", newMuteState |-> ~isTTSMuted,
                  isSpeaking |-> isSpeaking["lesson"]]
    /\ lastOp' = "toggleMute"
    /\ UNCHANGED <<lessonLoaded, currentIndex, showAnswer, storedMute, muteLoad,
                   lessonAlert, spVars, trAlert>>

\* toggleMute after setItem: `if (newMuteState && isSpeaking) await
\* Speech.stop()`, or the catch branch when the write failed
ToggleMuteStored(ok) ==
    /\ toggle.pc = "setItem"
    /\ storedMute' = IF ~ok THEN storedMute
                     ELSE IF toggle.newMuteState THEN "true" ELSE "false"
    /\ toggle' = IF ok /\ toggle.newMuteState /\ toggle.isSpeaking
                 THEN [toggle EXCEPT !.pc = "stop"]
                 ELSE NoToggle
    /\ lastOp' = "toggleMuteStored"
    /\ UNCHANGED <<lessonLoaded, currentIndex, showAnswer, isTTSMuted, muteLoad,
                   lessonAlert, spVars, trAlert>>

\* the native side performs the Speech.stop() of toggleMute
ToggleMuteNativeStop ==
    /\ toggle.pc = "stop"
    /\ StopAll
    /\ toggle' = [toggle EXCEPT !.pc = "stopped"]
    /\ lastOp' = "stop"
    /\ UNCHANGED <<lessonLoaded, currentIndex, showAnswer, isTTSMuted,
                   storedMute, muteLoad, lessonAlert, speaks, trAlert>>

\* toggleMute after Speech.stop(): setIsSpeaking(false)
ToggleMuteResume ==
    /\ toggle.pc = "stopped"
    /\ isSpeaking' = [isSpeaking EXCEPT !["lesson"] = FALSE]
    /\ toggle' = NoToggle
    /\ lastOp' = "toggleMuteResume"
    /\ UNCHANGED <<lessonLoaded, currentIndex, showAnswer, isTTSMuted,
                   storedMute, muteLoad, lessonAlert, speaks, speechQueue,
                   trAlert>>

\* ---------------------------------------------------------- speech capture

Platforms == {"web", "webNoSpeech", "mobile"}

Transcripts == {<<"b">>}

\* the native session: its number, whether it listens, whether it has given
\* a result or an error, whether it has given an error, whether a Voice.stop
\* has stopped it, its callbacks so far
NoVoice == [id |-> 0, state |-> "none", terminal |-> FALSE, failed |-> FALSE,
            stopped |-> FALSE, n |-> 0]

NoCalls == [startRecording |-> "none", stopRecording |-> "none",
            startListening |-> "none", stopListening |-> "none"]

\* what the promise of a finished startListening resolved with
Returned == {"true", "false"}

\* the mount effect of the translator component sets the four Voice handlers;
\* session is the native session whose startListening call set the handlers of
\* the service, its onResult and onError in their closures
CaptureInit ==
    /\ isRecording = FALSE
    /\ tabIsRecording = FALSE
    /\ isListening = FALSE
    /\ voice = NoVoice
    /\ handlers = [results |-> "component", error |-> "component",
                   session |-> 0]
    /\ recognizers = <<>>
    /\ calls = NoCalls
    /\ svcText = Empty
    /\ svcAlert = "none"
    /\ cbSession = 0

VoiceListening == voice.state = "listening" /\ ~voice.terminal

RecListening(i) == recognizers[i].state = "listening" /\ ~recognizers[i].terminal

\* the capture sessions that listen
Listening ==
    Cardinality({i \in DOMAIN recognizers : RecListening(i)})
        + (IF VoiceListening THEN 1 ELSE 0)

\* startRecording up to its `await Voice.start(...)`; the mic button shows it
\* while isRecording is false
StartRecording ==
    /\ ~isRecording
    /\ calls.startRecording = "none"
    /\ isRecording' = TRUE
    /\ calls' = [calls EXCEPT !.startRecording = "start"]
    /\ lastOp' = "startRecording"
    /\ UNCHANGED <<platform, tabIsRecording, isListening, voice, handlers,
                   recognizers, svcText, svcAlert, cbSession, inputText,
                   trAlert, sourceText, debounce, tabAlert, swapSnap, swapCount>>

\* the native side performs a Voice.start: a new session replaces the one
\* there is, or the call rejects (no recognizer, no permission)
NativeVoiceStart(caller, ok) ==
    /\ calls[caller] = "start"
    /\ IF ok
       THEN /\ platform = "mobile"
            /\ voice.id < MaxSessions
            /\ voice' = [id |-> voice.id + 1, state |-> "listening",
                         terminal |-> FALSE, failed |-> FALSE,
                         stopped |-> FALSE, n |-> 0]
            /\ calls' = [calls EXCEPT ![caller] = "resolved"]
       ELSE /\ calls' = [calls EXCEPT ![caller] = "rejected"]
            /\ UNCHANGED voice
    /\ lastOp' = "Voice.start"
    /\ UNCHANGED <<platform, isRecording, tabIsRecording, isListening,
                   handlers, recognizers, svcText, svcAlert, cbSession,
                   inputText, trAlert, sourceText, debounce, tabAlert,
                   swapSnap, swapCount>>

\* startRecording after Voice.start: `if (!started)`, or the catch branch;
\* started is what the promise of Voice.start resolved with
StartRecordingResume(started) ==
    /\ calls.startRecording \in {"resolved", "rejected"}
    /\ IF calls.startRecording = "rejected"
       THEN isRecording' = FALSE /\ trAlert' = "Microphone Error"
       ELSE IF ~started
            THEN isRecording' = FALSE /\ trAlert' = "Error"
            ELSE UNCHANGED <<isRecording, trAlert>>
    /\ calls' = [calls EXCEPT !.startRecording = "none"]
    /\ lastOp' = "startRecordingResume"
    /\ UNCHANGED <<platform, tabIsRecording, isListening, voice, handlers,
                   recognizers, svcText, svcAlert, cbSession, inputText,
                   sourceText, debounce, tabAlert, swapSnap, swapCount>>

\* stopRecording up to its `await Voice.stop()`; the mic button shows it while
\* isRecording is true
StopRecording ==
    /\ isRecording
    /\ calls.stopRecording = "none"
    /\ calls' = [calls EXCEPT !.stopRecording = "stop"]
    /\ lastOp' = "stopRecording"
    /\ UNCHANGED <<platform, isRecording, tabIsRecording, isListening, voice,
                   handlers, recognizers, svcText, svcAlert, cbSession,
                   inputText, trAlert, sourceText, debounce, tabAlert,
                   swapSnap, swapCount>>

\* the native side performs a Voice.stop: the session stops listening, its
\* callbacks may still follow; or the call rejects
NativeVoiceStop(caller, ok) ==
    /\ calls[caller] = "stop"
    /\ IF ok
       THEN /\ platform = "mobile"
            /\ voice' = IF voice.id = 0 THEN voice
                        ELSE [voice EXCEPT !.state = "ended", !.stopped = TRUE]
            /\ calls' = [calls EXCEPT ![caller] = "resolved"]
       ELSE /\ calls' = [calls EXCEPT ![caller] = "rejected"]
            /\ UNCHANGED voice
    /\ lastOp' = "Voice.stop"
    /\ UNCHANGED <<platform, isRecording, tabIsRecording, isListening,
                   handlers, recognizers, svcText, svcAlert, cbSession,
                   inputText, trAlert, sourceText, debounce, tabAlert,
                   swapSnap, swapCount>>

\* stopRecording after Voice.stop, also its catch branch: setIsRecording(false)
StopRecordingResume ==
    /\ calls.stopRecording \in {"resolved", "rejected"}
    /\ isRecording' = FALSE
    /\ calls' = [calls EXCEPT !.stopRecording = "none"]
    /\ lastOp' = "stopRecordingResume"
    /\ UNCHANGED <<platform, tabIsRecording, isListening, voice, handlers,
                   recognizers, svcText, svcAlert, cbSession, inputText,
                   trAlert, sourceText, debounce, tabAlert, swapSnap, swapCount>>

\* a callback of the native session is due; the native recognizers repeat
\* results and give errors and the end of speech on either side of a result
VoiceEvent == platform = "mobile" /\ voice.id > 0 /\ voice.n < MaxEvents

\* Voice.onSpeechStart = () => setIsRecording(true)
OnSpeechStart ==
    /\ VoiceEvent
    /\ voice.state = "listening"
    /\ ~voice.terminal
    /\ voice' = [voice EXCEPT !.n = @ + 1]
    /\ cbSession' = voice.id
    /\ isRecording' = TRUE
    /\ lastOp' = "onSpeechStart"
    /\ UNCHANGED <<platform, tabIsRecording, isListening, handlers,
                   recognizers, calls, svcText, svcAlert, inputText, trAlert,
                   sourceText, debounce, tabAlert, swapSnap, swapCount>>

\* Voice.onSpeechEnd = () => setIsRecording(false)
OnSpeechEnd ==
    /\ VoiceEvent
    /\ voice' = [voice EXCEPT !.n = @ + 1, !.state = "ended"]
    /\ cbSession' = voice.id
    /\ isRecording' = FALSE
    /\ lastOp' = "onSpeechEnd"
    /\ UNCHANGED <<platform, tabIsRecording, isListening, handlers,
                   recognizers, calls, svcText, svcAlert, inputText, trAlert,
                   sourceText, debounce, tabAlert, swapSnap, swapCount>>

\* Voice.onSpeechResults: of the component, setInputText(e.value[0]); of the
\* service, onResult(event.value[0])
OnSpeechResults(t) ==
    /\ VoiceEvent
    /\ voice' = [voice EXCEPT !.n = @ + 1, !.terminal = TRUE]
    /\ cbSession' = voice.id
    /\ IF handlers.results = "component"
       THEN inputText' = t /\ UNCHANGED svcText
       ELSE svcText' = t /\ UNCHANGED inputText
    /\ lastOp' = "onSpeechResults"
    /\ UNCHANGED <<platform, isRecording, tabIsRecording, isListening,
                   handlers, recognizers, calls, svcAlert, trAlert,
                   sourceText, debounce, tabAlert, swapSnap, swapCount>>

\* Voice.onSpeechError: of the component, setIsRecording(false) and an Alert;
\* of the service, onError(...) and isListening = false
OnSpeechError ==
    /\ VoiceEvent
    /\ voice' = [voice EXCEPT !.n = @ + 1, !.terminal = TRUE, !.failed = TRUE]
    /\ cbSession' = voice.id
    /\ IF handlers.error = "component"
       THEN /\ isRecording' = FALSE
            /\ trAlert' = "Microphone Access Needed"
            /\ UNCHANGED <<isListening, svcAlert>>
       ELSE /\ isListening' = FALSE
            /\ svcAlert' = "Speech recognition failed"
            /\ UNCHANGED <<isRecording, trAlert>>
    /\ lastOp' = "onSpeechError"
    /\ UNCHANGED <<platform, tabIsRecording, handlers, recognizers, calls,
                   svcText, inputText, sourceText, debounce, tabAlert,
                   swapSnap, swapCount>>

\* a recognizer as `new SpeechRecognition()` and start() leave it
NewRecognizer(owner) ==
    [owner |-> owner, state |-> "started", terminal |-> FALSE]

\* the recognizers there are when one more is started: the browser lets them
\* run on or aborts them
Preempted(abort) ==
    [i \in DOMAIN recognizers |->
        IF abort /\ recognizers[i].state \in {"started", "listening"}
        THEN [recognizers[i] EXCEPT !.state = "aborted"]
        ELSE recognizers[i]]

\* startVoiceRecognition of the translate tab: a new recognizer with the web
\* speech API, a notice without
StartVoiceRecognition(abort) ==
    /\ IF platform = "web"
       THEN /\ Len(recognizers) < MaxSessions
            /\ recognizers' = Append(Preempted(abort), NewRecognizer("tab"))
            /\ UNCHANGED tabAlert
       ELSE /\ ~abort
            /\ tabAlert' = "Voice recognition is available on web platform"
            /\ UNCHANGED recognizers
    /\ lastOp' = "startVoiceRecognition"
    /\ UNCHANGED <<platform, isRecording, tabIsRecording, isListening, voice,
                   handlers, calls, svcText, svcAlert, cbSession, inputText,
                   trAlert, sourceText, debounce, swapSnap, swapCount>>

\* SpeechRecognitionService.startListening: on the web the whole of
\* startWebSpeechRecognition, on mobile up to `await Voice.isAvailable()`
StartListening(abort) ==
    /\ calls.startListening \in Returned \cup {"none"}
    /\ CASE platform = "web" ->
              /\ Len(recognizers) < MaxSessions
              /\ recognizers' = Append(Preempted(abort), NewRecognizer("service"))
              /\ isListening' = TRUE
              /\ calls' = [calls EXCEPT !.startListening = "true"]
              /\ UNCHANGED svcAlert
         [] platform = "webNoSpeech" ->
              /\ ~abort
              /\ svcAlert' = "Not Supported"
              /\ calls' = [calls EXCEPT !.startListening = "false"]
              /\ UNCHANGED <<recognizers, isListening>>
         [] OTHER ->
              /\ ~abort
              /\ calls' = [calls EXCEPT !.startListening = "isAvailable"]
              /\ UNCHANGED <<recognizers, isListening, svcAlert>>
    /\ lastOp' = "startListening"
    /\ UNCHANGED <<platform, isRecording, tabIsRecording, voice, handlers,
                   svcText, cbSession, inputText, trAlert, sourceText,
                   debounce, tabAlert, swapSnap, swapCount>>

\* the native side answers Voice.isAvailable(): a recognition service is
\* there, none is, or the call rejects
NativeVoiceIsAvailable(available, ok) ==
    /\ calls.startListening = "isAvailable"
    /\ calls' = [calls EXCEPT !.startListening =
           IF ~ok THEN "probeRejected"
           ELSE IF available THEN "available" ELSE "notAvailable"]
    /\ lastOp' = "Voice.isAvailable"
    /\ UNCHANGED <<platform, isRecording, tabIsRecording, isListening, voice,
                   handlers, recognizers, svcText, svcAlert, cbSession,
                   inputText, trAlert, sourceText, debounce, tabAlert,
                   swapSnap, swapCount>>

StartListeningAvailableOpen ==
    /\ calls.startListening \in {"available", "notAvailable", "probeRejected"}
    /\ IF calls.startListening = "probeRejected"
       THEN /\ svcAlert' = "error"
            /\ calls' = [calls EXCEPT !.startListening = "false"]
       ELSE /\ calls' = [calls EXCEPT !.startListening = "start"]
            /\ UNCHANGED svcAlert
    /\ lastOp' = "startListeningAvailable"
    /\ UNCHANGED <<platform, isRecording, tabIsRecording, isListening, voice,
                   handlers, recognizers, svcText, cbSession, inputText,
                   trAlert, sourceText, debounce, tabAlert, swapSnap, swapCount>>

\* startMobileSpeechRecognition after Voice.isAvailable(): the Alert, the
\* call of Voice.start, or the catch branch
StartListeningAvailable ==
    /\ calls.startListening \in {"available", "notAvailable", "probeRejected"}
    /\ CASE calls.startListening = "probeRejected" ->
              /\ svcAlert' = "error"
              /\ calls' = [calls EXCEPT !.startListening = "false"]
         [] calls.startListening = "notAvailable" ->
              /\ svcAlert' = "Not Available"
              /\ calls' = [calls EXCEPT !.startListening = "false"]
         [] OTHER ->
              /\ calls' = [calls EXCEPT !.startListening = "start"]
              /\ UNCHANGED svcAlert
    /\ lastOp' = "startListeningAvailable"
    /\ UNCHANGED <<platform, isRecording, tabIsRecording, isListening, voice,
                   handlers, recognizers, svcText, cbSession, inputText,
                   trAlert, sourceText, debounce, tabAlert, swapSnap, swapCount>>

\* startMobileSpeechRecognition after Voice.start: isListening = true and the
\* two Voice handlers are set, or the catch branch
StartListeningResume ==
    /\ calls.startListening \in {"resolved", "rejected"}
    /\ IF calls.startListening = "resolved"
       THEN /\ isListening' = TRUE
            /\ handlers' = [results |-> "service", error |-> "service",
                            session |-> voice.id]
            /\ calls' = [calls EXCEPT !.startListening = "true"]
            /\ UNCHANGED svcAlert
       ELSE /\ svcAlert' = "error"
            /\ calls' = [calls EXCEPT !.startListening = "false"]
            /\ UNCHANGED <<isListening, handlers>>
    /\ lastOp' = "startListeningResume"
    /\ UNCHANGED <<platform, isRecording, tabIsRecording, voice, recognizers,
                   svcText, cbSession, inputText, trAlert, sourceText,
                   debounce, tabAlert, swapSnap, swapCount>>

\* stopListening: on the web isListening = false, on mobile up to
\* `await Voice.stop()`
StopListening ==
    /\ calls.stopListening = "none"
    /\ IF platform = "mobile"
       THEN /\ calls' = [calls EXCEPT !.stopListening = "stop"]
            /\ UNCHANGED isListening
       ELSE /\ isListening' = FALSE
            /\ UNCHANGED calls
    /\ lastOp' = "stopListening"
    /\ UNCHANGED <<platform, isRecording, tabIsRecording, voice, handlers,
                   recognizers, svcText, svcAlert, cbSession, inputText,
                   trAlert, sourceText, debounce, tabAlert, swapSnap, swapCount>>

\* stopListening after Voice.stop: isListening = false, or the catch branch
StopListeningResume ==
    /\ calls.stopListening \in {"resolved", "rejected"}
    /\ isListening' = IF calls.stopListening = "resolved" THEN FALSE
                      ELSE isListening
    /\ calls' = [calls EXCEPT !.stopListening = "none"]
    /\ lastOp' = "stopListeningResume"
    /\ UNCHANGED <<platform, isRecording, tabIsRecording, voice, handlers,
                   recognizers, svcText, svcAlert, cbSession, inputText,
                   trAlert, sourceText, debounce, tabAlert, swapSnap, swapCount>>

\* a callback of recognizer i is due: onstart, then one onresult or onerror
\* (continuous = false, interimResults = false), then onend
RecEvent(i) ==
    /\ i \in DOMAIN recognizers
    /\ recognizers[i].state # "ended"

\* recognition.onstart: of the tab, setIsRecording(true); the service sets none
RecOnStart(i) ==
    /\ RecEvent(i)
    /\ recognizers[i].state = "started"
    /\ ~recognizers[i].terminal
    /\ recognizers' = [recognizers EXCEPT ![i].state = "listening"]
    /\ cbSession' = i
    /\ tabIsRecording' = IF recognizers[i].owner = "tab" THEN TRUE
                         ELSE tabIsRecording
    /\ lastOp' = "onstart"
    /\ UNCHANGED <<platform, isRecording, isListening, voice, handlers, calls,
                   svcText, svcAlert, inputText, trAlert, sourceText,
                   debounce, tabAlert, swapSnap, swapCount>>

\* recognition.onresult: of the tab, setSourceText(transcript) and
\* setIsRecording(false); of the service, onResult(transcript) and
\* isListening = false
RecOnResult(i, t) ==
    /\ RecEvent(i)
    /\ recognizers[i].state = "listening"
    /\ ~recognizers[i].terminal
    /\ recognizers' = [recognizers EXCEPT ![i].terminal = TRUE]
    /\ cbSession' = i
    /\ IF recognizers[i].owner = "tab"
       THEN /\ sourceText' = t
            /\ debounce' = DebounceAfter(t, sourceLanguage, targetLanguage)
            /\ UserEdit
            /\ tabIsRecording' = FALSE
            /\ UNCHANGED <<svcText, isListening>>
       ELSE /\ svcText' = t
            /\ isListening' = FALSE
            /\ UNCHANGED <<sourceText, debounce, swapSnap, swapCount,
                           tabIsRecording>>
    /\ lastOp' = "onresult"
    /\ UNCHANGED <<platform, isRecording, voice, handlers, calls, svcAlert,
                   inputText, trAlert, tabAlert>>

\* recognition.onerror: of the tab, setIsRecording(false); of the service,
\* onError(...) and isListening = false
RecOnError(i) ==
    /\ RecEvent(i)
    /\ ~recognizers[i].terminal
    /\ recognizers' = [recognizers EXCEPT ![i].terminal = TRUE]
    /\ cbSession' = i
    /\ IF recognizers[i].owner = "tab"
       THEN /\ tabIsRecording' = FALSE
            /\ UNCHANGED <<svcAlert, isListening>>
       ELSE /\ svcAlert' = "Speech recognition error"
            /\ isListening' = FALSE
            /\ UNCHANGED tabIsRecording
    /\ lastOp' = "onerror"
    /\ UNCHANGED <<platform, isRecording, voice, handlers, calls, svcText,
                   inputText, trAlert, sourceText, debounce, tabAlert,
                   swapSnap, swapCount>>

\* recognition.onend: of the tab, setIsRecording(false); of the service,
\* isListening = false
RecOnEnd(i) ==
    /\ RecEvent(i)
    /\ recognizers' = [recognizers EXCEPT ![i].state = "ended"]
    /\ cbSession' = i
    /\ IF recognizers[i].owner = "tab"
       THEN tabIsRecording' = FALSE /\ UNCHANGED isListening
       ELSE isListening' = FALSE /\ UNCHANGED tabIsRecording
    /\ lastOp' = "onend"
    /\ UNCHANGED <<platform, isRecording, voice, handlers, calls, svcText,
                   svcAlert, inputText, trAlert, sourceText, debounce,
                   tabAlert, swapSnap, swapCount>>

\* --------------------------------------------------------- specifications

\* the state after mount, on one of the platforms P and with one of the
\* stored mute preferences M
InitOn(P, M) ==
    /\ TrInit
    /\ TabInit
    /\ SpeechInit
    /\ LessonInit
    /\ CaptureInit
    /\ platform \in P
    /\ storedMute \in M
    /\ lastOp = "mount"

Init == InitOn(Platforms, StoredMutes)

\* the start of the behaviours that read neither the platform nor the stored
\* mute preference
InitPlain == InitOn({"mobile"}, {"null"})

\* the start of the behaviours of the lesson screen
InitLesson == InitOn({"mobile"}, StoredMutes)

\* the synthesizer and the continuations of the speak handlers
SynthStep ==
    \/ \E i \in 1..MaxSpeaks, ok \in BOOLEAN : NativeIsSpeaking(i, ok)
    \/ \E i \in 1..MaxSpeaks, ok \in BOOLEAN : NativeStop(i, ok)
    \/ \E i \in 1..MaxSpeaks : SpeakResume(i)
    \/ UtteranceDone
    \/ UtteranceError

TranslatorStep(maxRuns) ==
    \/ \E m \in LanguageModes : SetLanguageMode(m)
    \/ \E t \in Inputs : SetInputText(t)
    \/ DismissAlert
    \/ HandleTranslate(maxRuns)
    \/ \E r \in Responses : EndpointResponds(r)
    \/ HandleTranslateResume
    \/ HandleSwapLanguages
    \/ HandleClear
    \/ \E i \in 1..HistoryCap : SelectFromHistory(i)

TabStep ==
    \/ \E t \in Inputs : TabSetSourceText(t)
    \/ TabClear
    \/ \E l \in Languages : TabSetSourceLanguage(l)
    \/ \E l \in Languages : TabSetTargetLanguage(l)
    \/ SwapLanguages
    \/ DebounceFires
    \/ TranslateResume

TranslatorNext ==
    TranslatorStep(MaxTranslations) /\ UNCHANGED <<tabVars, spVars, lesVars, capVars>>

\* the translator component under every user action and endpoint answer
SpecTranslator == InitPlain /\ [][TranslatorNext]_vars

HistoryNext ==
    /\ \/ SetLanguageMode("learn-thai")
       \/ SetInputText(<<"a">>)
       \/ DismissAlert
       \/ HandleTranslate(MaxHistoryRuns)
       \/ \E r \in {x \in Responses : x.kind # "errorBody"} : EndpointResponds(r)
       \/ HandleTranslateResume
    /\ UNCHANGED <<tabVars, spVars, lesVars, capVars>>

\* the translator component translating one input over and over
SpecHistory == InitPlain /\ [][HistoryNext]_vars

TabNext == TabStep /\ UNCHANGED <<trVars, spVars, lesVars, capVars>>

\* the translate tab under every user action and timer
SpecTab == InitPlain /\ [][TabNext]_vars

SubmitNext ==
    \/ /\ \/ \E t \in Inputs : SetInputText(t)
          \/ DismissAlert
          \/ HandleTranslate(MaxTranslations)
          \/ \E r \in Responses : EndpointResponds(r)
          \/ HandleTranslateResume
       /\ UNCHANGED <<tabVars, spVars, lesVars, capVars>>
    \/ /\ \/ \E t \in Inputs : TabSetSourceText(t)
          \/ DebounceFires
          \/ TranslateResume
       /\ UNCHANGED <<trVars, spVars, lesVars, capVars>>

\* typing and submitting in the translator component and in the translate tab
SpecSubmit == InitPlain /\ [][SubmitNext]_vars

SpeakNext ==
    \/ SetInputText(<<"a">>) /\ UNCHANGED <<tabVars, spVars, lesVars, capVars>>
    \/ TabSetSourceText(<<"a">>) /\ UNCHANGED <<trVars, spVars, lesVars, capVars>>
    \/ LoadLesson /\ UNCHANGED <<trVars, tabVars, spVars, capVars>>
    \/ HandleSpeak("input") /\ UNCHANGED <<trCore, tabVars, lesCore, capVars>>
    \/ SpeakText("source") /\ UNCHANGED <<trCore, tabVars, lesCore, capVars>>
    \/ LessonSpeakButton /\ UNCHANGED <<trCore, tabVars, capVars>>
    \/ SynthStep /\ UNCHANGED <<trCore, tabVars, lesCore, capVars>>

\* speak requests of the three screens on the one platform synthesizer
SpecSpeak == InitPlain /\ [][SpeakNext]_vars

\* the speak handlers suspended after the step
Suspended == {i \in 1..MaxSpeaks : speaks'[i] # IdleSpeak}

\* what the speak handlers and the synthesizer leave alone
speakRest == <<trCore, tabVars, lesCore, capVars>>

IndicatorStep ==
    \/ SetInputText(<<"a">>) /\ UNCHANGED <<tabVars, spVars, lesVars, capVars>>
    \/ LoadLesson /\ UNCHANGED <<trVars, tabVars, spVars, capVars>>
    \/ HandleSpeak("input") /\ UNCHANGED speakRest
    \/ LessonSpeakButton /\ UNCHANGED <<trCore, tabVars, capVars>>
    \/ SpeakThai /\ UNCHANGED speakRest
    \/ SynthStep /\ UNCHANGED speakRest

IndicatorNext ==
    IndicatorStep /\ Cardinality(Suspended) <= MaxIndicatorSpeaks

\* the platform answers every call, every handler resumes after its await and
\* every utterance at the head of the queue gets its terminal callback
IndicatorFairness ==
    /\ WF_vars((\E i \in 1..MaxSpeaks, ok \in BOOLEAN : NativeIsSpeaking(i, ok))
               /\ UNCHANGED speakRest)
    /\ WF_vars((\E i \in 1..MaxSpeaks, ok \in BOOLEAN : NativeStop(i, ok))
               /\ UNCHANGED speakRest)
    /\ WF_vars((\E i \in 1..MaxSpeaks : SpeakResume(i)) /\ UNCHANGED speakRest)
    /\ WF_vars((UtteranceDone \/ UtteranceError) /\ UNCHANGED speakRest)

\* the speaking indicators of the translator component and of the lesson
\* screens, with the platform making progress
SpecIndicator == InitPlain /\ [][IndicatorNext]_vars /\ IndicatorFairness

LessonStep ==
    \/ /\ \/ LoadLesson
          \/ \E ok \in BOOLEAN : LoadMutePreference(ok)
       /\ UNCHANGED <<trVars, tabVars, spVars, capVars>>
    \/ /\ \/ ToggleAnswer
          \/ HandleNext
          \/ HandlePrevious
          \/ LessonSpeakButton
          \/ ToggleMute
          \/ \E ok \in BOOLEAN : ToggleMuteStored(ok)
          \/ ToggleMuteNativeStop
          \/ ToggleMuteResume
       /\ UNCHANGED <<trCore, tabVars, capVars>>
    \/ SynthStep /\ UNCHANGED <<trCore, tabVars, lesCore, capVars>>

LessonNext == LessonStep /\ Cardinality(Suspended) <= MaxLessonSpeaks

\* the lesson screen: flashcards, the mute preference and its speech
SpecLesson == InitLesson /\ [][LessonNext]_vars

MountStep ==
    \/ /\ \/ LoadLesson
          \/ \E ok \in BOOLEAN : LoadMutePreference(ok)
       /\ UNCHANGED <<trVars, tabVars, spVars, capVars>>
    \/ /\ \/ ToggleAnswer
          \/ HandleNext
          \/ HandlePrevious
          \/ LessonSpeakButton
       /\ UNCHANGED <<trCore, tabVars, capVars>>
    \/ SynthStep /\ UNCHANGED speakRest

MountNext == MountStep /\ Cardinality(Suspended) <= MaxLessonSpeaks

\* one mount of the lesson screen in which the user never presses the mute
\* button
SpecMount == InitLesson /\ [][MountNext]_vars

MuteStep ==
    \/ SetInputText(<<"a">>) /\ UNCHANGED <<tabVars, spVars, lesVars, capVars>>
    \/ HandleSpeak("input") /\ UNCHANGED speakRest
    \/ /\ \/ LoadLesson
          \/ \E ok \in BOOLEAN : LoadMutePreference(ok)
       /\ UNCHANGED <<trVars, tabVars, spVars, capVars>>
    \/ /\ \/ ToggleMute
          \/ \E ok \in BOOLEAN : ToggleMuteStored(ok)
       /\ UNCHANGED <<trCore, tabVars, capVars>>
    \/ SynthStep /\ UNCHANGED speakRest

MuteNext == MuteStep /\ Cardinality(Suspended) <= MaxLessonSpeaks

\* the speak requests of the translator component while the mute preference
\* of the lesson screen is loaded and toggled
SpecMute == InitLesson /\ [][MuteNext]_vars

\* the callbacks of the native session and of the web recognizers
RecognizerStep ==
    \/ OnSpeechStart
    \/ OnSpeechEnd
    \/ \E t \in Transcripts : OnSpeechResults(t)
    \/ OnSpeechError
    \/ \E i \in 1..MaxSessions : RecOnStart(i)
    \/ \E i \in 1..MaxSessions, t \in Transcripts : RecOnResult(i, t)
    \/ \E i \in 1..MaxSessions : RecOnError(i)
    \/ \E i \in 1..MaxSessions : RecOnEnd(i)

CaptureStep ==
    \/ StartRecording
    \/ \E ok \in BOOLEAN : NativeVoiceStart("startRecording", ok)
    \/ \E started \in BOOLEAN : StartRecordingResume(started)
    \/ StopRecording
    \/ \E ok \in BOOLEAN : NativeVoiceStop("stopRecording", ok)
    \/ StopRecordingResume
    \/ \E abort \in BOOLEAN : StartVoiceRecognition(abort)
    \/ RecognizerStep

CaptureNext == CaptureStep /\ UNCHANGED <<trRest, tabRest, spVars, lesVars>>

\* speech capture of the translator component and of the translate tab, on
\* each platform
SpecCapture == InitOn(Platforms, {"null"}) /\ [][CaptureNext]_vars

DictateNext ==
    \/ CaptureStep /\ UNCHANGED <<trRest, tabRest, spVars, lesVars>>
    \/ /\ \/ DebounceFires
          \/ TranslateResume
       /\ UNCHANGED <<trVars, spVars, lesVars, capVars>>

\* speech capture together with the debounced translation of the translate tab
SpecDictate == InitOn(Platforms, {"null"}) /\ [][DictateNext]_vars

ServiceStep ==
    \/ \E abort \in BOOLEAN : StartListening(abort)
    \/ \E available, ok \in BOOLEAN : NativeVoiceIsAvailable(available, ok)
    \/ StartListeningAvailable
    \/ \E ok \in BOOLEAN : NativeVoiceStart("startListening", ok)
    \/ StartListeningResume
    \/ StopListening
    \/ \E ok \in BOOLEAN : NativeVoiceStop("stopListening", ok)
    \/ StopListeningResume
    \/ RecognizerStep

ServiceNext == ServiceStep /\ UNCHANGED <<trRest, tabRest, spVars, lesVars>>

\* speech capture through SpeechRecognitionService, on each platform
SpecService == InitOn(Platforms, {"null"}) /\ [][ServiceNext]_vars

\* ------------------------------------------------------------------ claims

\* C4: the history never holds more than 10 entries, and it holds exactly the
\* (up to) 10 most recent successful translations, newest first: after more
\* than 10 translations the 11th-newest entry is gone.
C4_HistoryBound ==
    /\ Len(history) <= 10
    /\ Len(history) = Min(clock, 10)
    /\ \A i \in 1..Len(history) : history[i].id = clock - i + 1

C4_Witness ==
    /\ clock = 12
    /\ Len(history) = 10
    /\ history[1].id = 12
    /\ history[10].id = 3

\* C5: a translation that fails, by a rejected fetch or by an error body
\* without `translated`, leaves the output text as it was and raises a notice.
C5_FailureKeepsOutput ==
    [][(lastOp' = "handleTranslateResume"
            /\ trReq.resp.kind \in {"reject", "errorBody"})
          => (translatedText' = translatedText /\ trAlert' = "Error")]_vars

\* C7: two swaps with no user edit between them restore the language pair and
\* both texts of the translate tab; stated for the most favourable start, a
\* first swap pressed while no translation is pending and no timer is armed,
\* so that only the timer the first swap arms itself can come between.
C7_SwapRoundTrip ==
    (lastOp = "swapLanguages" /\ swapCount = 2 /\ swapSnap.quiet)
        => /\ sourceLanguage = swapSnap.source
           /\ targetLanguage = swapSnap.target
           /\ sourceText = swapSnap.text
           /\ tabTranslatedText = swapSnap.translated

\* C8: a swap exchanges the source and the target language together with the
\* input and the output text.
C8_SwapExchangesPair ==
    [][(lastOp' = "handleSwapLanguages"
          => /\ sourceLang' = targetLang
             /\ targetLang' = sourceLang
             /\ inputText' = translatedText
             /\ translatedText' = inputText)
       /\ (lastOp' = "swapLanguages"
          => /\ sourceLanguage' = targetLanguage
             /\ targetLanguage' = sourceLanguage
             /\ sourceText' = tabTranslatedText
             /\ tabTranslatedText' = sourceText)]_vars

\* C9: a submit with non-blank input issues one request carrying the input
\* text and the language pair of that moment; a successful answer becomes the
\* output text and the head of the history, with the submitted input and the
\* request's language pair.
C9_SuccessfulSubmit ==
    [][/\ (lastOp' = "handleTranslate" /\ Trim(inputText) # Empty)
          => /\ trReq = NoReq
             /\ trReq' # NoReq
             /\ trReq'.text = inputText
             /\ trReq'.source_lang = sourceLang
             /\ trReq'.target_lang = targetLang
       /\ (lastOp' = "handleTranslateResume" /\ trReq.resp.kind = "ok")
          => /\ translatedText' = trReq.resp.translated
             /\ Len(history') >= 1
             /\ history'[1].original = trReq.text
             /\ history'[1].translated = trReq.resp.translated
             /\ history'[1].sourceLang = trReq.source_lang
             /\ history'[1].targetLang = trReq.target_lang]_vars

\* a successful answer has arrived after the user changed the input and the
\* language mode while the request was in flight
C9_Witness ==
    /\ lastOp = "handleTranslateResume"
    /\ Len(history) >= 1
    /\ translatedText = history[1].translated
    /\ translatedText \in Replies
    /\ history[1].original # inputText
    /\ history[1].sourceLang # sourceLang

C1_SynthesisExclusivity == Len(speechQueue) <= 1

\* C6 - mute suppression: a reveal of the flashcard answer with the lesson
\* screen muted starts no speak and gives the synthesizer nothing; a reveal
\* with the screen not muted starts exactly one speak of the lesson screen.
C6_MuteSuppression ==
    [][lastOp' = "revealAnswer" =>
         IF isTTSMuted
         THEN speaks' = speaks /\ speechQueue' = speechQueue
         ELSE /\ Cardinality({i \in 1..MaxSpeaks : speaks'[i] # speaks[i]}) = 1
              /\ \A i \in 1..MaxSpeaks : speaks'[i] # speaks[i] =>
                     /\ speaks[i] = IdleSpeak
                     /\ speaks'[i].pc = "isSpeakingAsync"
                     /\ speaks'[i].screen = "lesson"]_vars

\* a reveal with the screen muted by the stored preference, nothing started
C6_Witness ==
    /\ lastOp = "revealAnswer"
    /\ showAnswer
    /\ isTTSMuted
    /\ storedMute = "true"
    /\ \A i \in 1..MaxSpeaks : speaks[i] = IdleSpeak

\* C2 - capture session uniqueness: at most one capture session listens at
\* any instant, and a start issued while a session listens creates no second
\* recognizer and leaves the session there is unaltered.
C2_CaptureSessionUniqueness ==
    /\ [](Listening <= 1)
    /\ [][(/\ lastOp' \in {"startVoiceRecognition", "startListening",
                           "Voice.start"}
           /\ Listening >= 1)
          => (recognizers' = recognizers /\ voice' = voice)]_vars

\* C3 - terminal-event idempotence: a recognizer callback of a session that
\* has had its first result or error changes neither a text nor a
\* recording/listening flag and raises no notice.
C3_TerminalEventIdempotence ==
    [][(\/ /\ lastOp' \in {"onSpeechStart", "onSpeechEnd", "onSpeechResults",
                           "onSpeechError"}
           /\ voice.terminal
        \/ /\ lastOp' \in {"onstart", "onresult", "onerror", "onend"}
           /\ recognizers[cbSession'].terminal)
       => UNCHANGED <<inputText, sourceText, svcText, isRecording,
                      tabIsRecording, isListening, trAlert, tabAlert,
                      svcAlert>>]_vars

\* C11 - permission denied: when the capture backend reports that permission
\* is denied (Voice.start rejects, Voice.onSpeechError fires, or the web
\* recognizer of the translate tab fires onerror), the input text is
\* unchanged, the recording flag is false and a notice is shown.
C11_PermissionDenied ==
    [][/\ (/\ lastOp' = "startRecordingResume"
           /\ calls.startRecording = "rejected")
          => (inputText' = inputText /\ ~isRecording' /\ trAlert' # "none")
       /\ (lastOp' = "onSpeechError" /\ handlers.error = "component")
          => (inputText' = inputText /\ ~isRecording' /\ trAlert' # "none")
       /\ (lastOp' = "onerror" /\ recognizers[cbSession'].owner = "tab")
          => (sourceText' = sourceText /\ ~tabIsRecording'
              /\ tabAlert' # "none")]_vars

\* C12 - the speaking indicator never sticks: whenever a screen's isSpeaking
\* is true it is false again later, whether the utterance ends, is stopped
\* (also by the stop of another screen) or fails, given that the platform
\* gives every dispatched utterance its terminal callback.
C12_IndicatorNeverSticks ==
    \A s \in Screens : isSpeaking[s] ~> ~isSpeaking[s]

\* the indicator of the translator component is on, its utterance is with the
\* synthesizer, and speakThai of the lesson route is about to stop it
C12_Witness ==
    /\ isSpeaking["translator"]
    /\ Len(speechQueue) = 1
    /\ Head(speechQueue).screen = "translator"
    /\ \E i \in 1..MaxSpeaks :
           speaks[i].pc = "stop" /\ speaks[i].screen = "lessonThai"

\* C13 - latest speak wins: a speak call that found an earlier utterance
\* active and stopped it leaves, once it dispatches, its own utterance as the
\* only one with the synthesizer: nothing is queued before or behind it.
C13_LatestSpeakWins ==
    [][\A i \in 1..MaxSpeaks :
          (/\ lastOp' = "speakResume"
           /\ speaks[i].pc = "stopped"
           /\ speaks'[i] = IdleSpeak)
          => speechQueue' = <<Utterance(speaks[i])>>]_vars

\* C14 - capture and translation are decoupled: a capture result only writes
\* the transcript into the input text; the result itself issues no translation
\* request, and none is issued after it before the user acts again (the step
\* that follows a capture result and is no user action issues none).
C14_CaptureDecoupled ==
    [][/\ lastOp' \in {"onSpeechResults", "onresult"}
          => UNCHANGED <<trReq, isTranslating, tabRuns, tabIsTranslating>>
       /\ (lastOp \in {"onSpeechResults", "onresult"} /\ lastOp' = "translate")
          => UNCHANGED <<tabRuns, tabIsTranslating>>]_vars

\* C15 - clear: handleClear of the translator component and the Clear control
\* of the translate tab set the input text and the output text to empty and
\* leave the history and the language pair as they are.
C15_ClearResetsBoth ==
    [][/\ lastOp' = "handleClear"
          => /\ inputText' = Empty
             /\ translatedText' = Empty
             /\ UNCHANGED <<history, languageMode>>
       /\ lastOp' = "clear"
          => /\ sourceText' = Empty
             /\ tabTranslatedText' = Empty
             /\ UNCHANGED <<sourceLanguage, targetLanguage>>]_vars

\* C16 - selectFromHistory: pressing a history item sets the input text to the
\* item's original and the output text to its translated text, and leaves the
\* history, its entries, their order and its length, unchanged.
C16_SelectFromHistory ==
    [][lastOp' = "selectFromHistory" =>
         /\ \E i \in 1..Len(history) :
               /\ inputText' = history[i].original
               /\ translatedText' = history[i].translated
         /\ history' = history]_vars

\* the older of two entries with different translations has been selected
C16_Witness ==
    /\ lastOp = "selectFromHistory"
    /\ Len(history) = 2
    /\ history[1].translated # history[2].translated
    /\ inputText = history[2].original
    /\ translatedText = history[2].translated

\* C17 - capture failures are terminal: a failure reported by the backend
\* (Voice.onSpeechError, web onerror, a rejected Voice.start) leaves the
\* recording/listening flag of its receiver false, and once the native
\* session has failed no step but a user's start turns isRecording or
\* isListening on while that session is the current one.
C17_CaptureFailureTerminal ==
    [][/\ lastOp' = "onSpeechError"
          => IF handlers.error = "component" THEN ~isRecording'
             ELSE ~isListening'
       /\ lastOp' = "onerror"
          => IF recognizers[cbSession'].owner = "tab" THEN ~tabIsRecording'
             ELSE ~isListening'
       /\ (lastOp' = "startRecordingResume" /\ calls.startRecording = "rejected")
          => ~isRecording'
       /\ (/\ voice.failed
           /\ voice'.id = voice.id
           /\ lastOp' \notin {"startRecording", "startListening"})
          => /\ isRecording' => isRecording
             /\ isListening' => isListening]_vars

\* C18 - graceful stop: a stop asks the backend to terminate, so that after
\* stopListening on the web no recognizer of the service listens and after a
\* Voice.stop performed for stopRecording or stopListening the native session
\* does not listen; a result the backend still delivers after the stop is
\* written to the input text (or given to onResult).
C18_GracefulStop ==
    [][/\ (lastOp' = "stopListening" /\ platform # "mobile")
          => \A i \in DOMAIN recognizers' :
                recognizers'[i].owner = "service" => ~RecListening(i)'
       /\ (lastOp' = "Voice.stop"
           /\ \E c \in {"stopRecording", "stopListening"} :
                 calls[c] = "stop" /\ calls'[c] = "resolved")
          => ~VoiceListening'
       /\ (lastOp' = "onSpeechResults" /\ voice.state = "ended")
          => IF handlers.results = "component" THEN inputText' \in Transcripts
             ELSE svcText' \in Transcripts]_vars

\* C19 - toggling mute on while the lesson screen is speaking stops the
\* synthesizer and resets isSpeaking: on every path through toggleMute, also
\* when the write of the preference fails, the step after the write calls
\* Speech.stop(), and the handler ends with isSpeaking false.
C19_MuteStopsSpeech ==
    [][/\ (/\ lastOp' = "toggleMuteStored"
           /\ toggle.newMuteState
           /\ toggle.isSpeaking)
          => toggle'.pc = "stop"
       /\ lastOp' = "toggleMuteResume" => ~isSpeaking'["lesson"]]_vars

\* C20 - mute independence: whatever the stored and the in-memory mute flag of
\* the lesson screen are, a speak request of the translator component starts
\* one handleSpeak with the component's text and language, and that handler
\* dispatches exactly this utterance: the utterance is a function of the
\* translator component's state alone.
C20_MuteIndependence ==
    [][/\ lastOp' = "handleSpeak"
          => \E i \in 1..MaxSpeaks :
                /\ speaks[i] = IdleSpeak
                /\ speaks' = [speaks EXCEPT ![i] =
                       [pc |-> "isSpeakingAsync", screen |-> "translator",
                        text |-> inputText,
                        language |-> LangCode(sourceLang)]]
       /\ \A i \in 1..MaxSpeaks :
             (/\ lastOp' = "speakResume"
              /\ speaks[i].pc \in {"notAvailable", "stopped"}
              /\ speaks[i].screen = "translator"
              /\ speaks'[i] = IdleSpeak)
             => speechQueue' = Append(speechQueue,
                    [screen |-> "translator", text |-> speaks[i].text,
                     language |-> speaks[i].language])]_vars

\* the utterance of the translator component has been dispatched while the
\* lesson screen is muted, in memory and in storage
C20_Witness ==
    /\ lastOp = "speakResume"
    /\ isTTSMuted
    /\ storedMute = "true"
    /\ speechQueue = <<[screen |-> "translator", text |-> <<"a">>,
                        language |-> LangCode(sourceLang)]>>

\* C21 - capability probing fails closed: when the browser offers no speech
\* recognition, or Voice.isAvailable() answers false or rejects, the
\* startListening call resolves with false (it neither rejects nor goes on to
\* start), creates no recognizer, starts no native session and leaves
\* isListening as it was.
C21_ProbeFailsClosed ==
    [][(\/ lastOp' = "startListening" /\ platform = "webNoSpeech"
        \/ /\ lastOp' = "startListeningAvailable"
           /\ calls.startListening \in {"notAvailable", "probeRejected"})
       => /\ calls'.startListening = "false"
          /\ UNCHANGED <<recognizers, voice, isListening>>]_vars

\* a first startListening on a device without a recognition service has
\* returned false after its Alert
C21_Witness ==
    /\ lastOp = "startListeningAvailable"
    /\ calls.startListening = "false"
    /\ svcAlert = "Not Available"
    /\ voice.id = 0
    /\ ~isListening

\* C22 - no stale synthesis reset: a terminal callback of an utterance
\* (onDone, onError, or the onStopped a Speech.stop() brings) never sets the
\* isSpeaking of a screen to false while another utterance of that screen is
\* still with the synthesizer.
C22_NoStaleReset ==
    [][lastOp' \in {"onDone", "onError", "stop"}
          => \A s \in Screens :
                (isSpeaking[s] /\ ~isSpeaking'[s]) => s \notin QueueOwners']_vars

\* C23 - late capture events are discarded: once a stopRecording or a
\* stopListening whose Voice.stop() stopped the native session has returned,
\* a callback of that session (start, end, result or error) changes neither
\* the input text (or the text given to onResult) nor a recording or
\* listening flag.
C23_LateEventsDiscarded ==
    [][(/\ lastOp' \in {"onSpeechStart", "onSpeechEnd", "onSpeechResults",
                        "onSpeechError"}
        /\ voice.stopped
        /\ calls.stopRecording = "none"
        /\ calls.stopListening = "none")
       => UNCHANGED <<inputText, svcText, isRecording, isListening>>]_vars

C25_TranslatingWhileOutstanding ==
    /\ [](isTranslating <=> trReq # NoReq)
    /\ [][/\ (lastOp' = "handleTranslate" /\ Trim(inputText) # Empty)
             => (~isTranslating /\ isTranslating')
          /\ lastOp' = "handleTranslateResume"
             => (isTranslating /\ ~isTranslating' /\ trReq' = NoReq)]_vars

\* a request has been rejected and its handler has ended: the flag is false
\* again and the Alert of the catch branch shows
C25_Witness ==
    /\ lastOp = "handleTranslateResume"
    /\ trAlert = "Error"
    /\ ~isTranslating
    /\ trReq = NoReq
    /\ history = <<>>

\* C26 - after handleClear the output text stays empty until the user submits
\* again: when Clear was pressed while a request was in flight, the handler
\* that resumes with the response of that request leaves the output text as
\* it is.
C26_ClearStaysClear ==
    [][(lastOp' = "handleTranslateResume" /\ trReq.cleared)
       => translatedText' = translatedText]_vars

\* C27 - the translate tab at quiescence: whenever no translate() is pending
\* and no debounce timer is armed, translatedText is empty or is the
\* translation of the sourceText there is into the target language there is.
C27_QuiescentTranslation ==
    (tabRuns = <<>> /\ debounce = NoTimer)
        => \/ tabTranslatedText = Empty
           \/ tabTranslatedText
                  = MockTranslation(TabClosure(sourceText, targetLanguage))

\* C28 - isCurrentlyListening() is true only while a session is active: after
\* a session of the service has given its result or has ended, on the native
\* recognizer and on the web, and after stopListening has returned, isListening
\* is false; after stopListening the recognizer of the service listens no more.
C28_ListeningOnlyWhileActive ==
    [][/\ (lastOp' \in {"onSpeechResults", "onSpeechEnd"}
           /\ handlers.results = "service")
          => ~isListening'
       /\ (lastOp' \in {"onresult", "onend"}
           /\ recognizers[cbSession'].owner = "service")
          => ~isListening'
       /\ (lastOp' = "stopListening" /\ platform # "mobile")
          => /\ ~isListening'
             /\ \A i \in DOMAIN recognizers' :
                   recognizers'[i].owner = "service" => ~RecListening(i)'
       /\ (lastOp' = "stopListeningResume" /\ calls.stopListening = "resolved")
          => (~isListening' /\ ~VoiceListening')]_vars

\* C29 - on the native recognizer every result and every error of a session
\* that a startListening call started is given to the onResult or onError of
\* that call: the Voice handlers that run are the ones this call set, not the
\* ones of an earlier call or of another owner, also for an event that comes
\* while the call still waits for Voice.start.
C29_EventsReachTheirCall ==
    [][/\ lastOp' = "onSpeechResults"
          => (handlers.results = "service" /\ handlers.session = voice.id)
       /\ lastOp' = "onSpeechError"
          => (handlers.error = "service" /\ handlers.session = voice.id)]_vars

\* C30 - the persisted mute preference governs the lesson screen from mount:
\* in a mount in which the stored 'tts_muted' is true and the user never
\* presses the mute button, no speak of the lesson screen is started and no
\* utterance is given to the synthesizer, whether an answer is revealed before
\* or after loadMutePreference has completed.
C30_StoredMuteFromMount ==
    storedMute = "true"
        => (speechQueue = <<>> /\ \A i \in 1..MaxSpeaks : speaks[i] = IdleSpeak)

=============================================================================
